---------------------------- MODULE Spec2Model ----------------------------
(***************************************************************************)
(* Administrative scripts of the fridge manager (ref_check): each script   *)
(* is an operator-run, run-to-completion program over one document         *)
(* database with the collections users, cities, fridges and checkins.      *)
(* One action models one whole run of one script.  The model takes the     *)
(* deployment in which every connection URI names the same database.       *)
(*                                                                         *)
(* Strings are TLA+ strings; a collection is the sequence of its documents *)
(* in natural (insertion) order; a document is a record whose domain is    *)
(* the set of fields it has.                                               *)
(***************************************************************************)
EXTENDS Naturals, Sequences, FiniteSets, TLC

VARIABLES
    users,        \* db["users"]
    cities,       \* db["cities"]
    fridges,      \* db["fridges"]
    checkins,     \* db["checkins"]
    nextId,       \* the next ObjectId the driver generates
    now,          \* the wall clock read by datetime.utcnow()
    bcryptBuild,  \* what the installed bcrypt does with a password over 72 bytes
    last          \* what the most recent run did: arguments, output, exit

vars == <<users, cities, fridges, checkins, nextId, now, bcryptBuild, last>>

-----------------------------------------------------------------------------
(* Bounds of the model.                                                    *)

MaxClock == 2       \* script runs per behaviour
MaxFaults == 1      \* database operations that raise, per run

-----------------------------------------------------------------------------
(* Python helpers.                                                         *)

StartsWith(s, p) == Len(s) >= Len(p) /\ SubSeq(s, 1, Len(p)) = p

Min(a, b) == IF a <= b THEN a ELSE b

RECURSIVE LStrip(_)
LStrip(s) == IF Len(s) > 0 /\ SubSeq(s, 1, 1) = " " THEN LStrip(Tail(s)) ELSE s

RECURSIVE RStrip(_)
RStrip(s) ==
    IF Len(s) > 0 /\ SubSeq(s, Len(s), Len(s)) = " "
    THEN RStrip(SubSeq(s, 1, Len(s) - 1))
    ELSE s

Strip(s) == RStrip(LStrip(s))

Digit(d) == SubSeq("0123456789", d + 1, d + 1)

\* str(n)
RECURSIVE NatStr(_)
NatStr(n) == IF n < 10 THEN Digit(n) ELSE NatStr(n \div 10) \o Digit(n % 10)

-----------------------------------------------------------------------------
(* bcrypt.  A hash is the string  $2b$ cost $ salt digest : the first 29   *)
(* characters are the salt string gensalt returns, the rest is the digest. *)
(* The digest is a one-way function of the salt string and of the first 72 *)
(* bytes of the password; the model writes it as the key it was computed   *)
(* from, so two digests are equal exactly when salt and key are.  The      *)
(* model's passwords are ASCII, where encode('utf-8') is bytewise.         *)

BcryptMaxBytes == 72
BcryptSaltChars == 22
BcryptSaltStringLen == 29
BcryptPrefixLen == 4

BcryptPrefixes == {"$2a$", "$2b$", "$2y$"}

SaltA == "SaltAAAAAAAAAAAAAAAAAA"
SaltB == "SaltBBBBBBBBBBBBBBBBBB"
RandomSalts == {SaltA, SaltB}

DefaultRounds == "12"
Rounds10 == "10"

ValueError == "!ValueError"

BcryptBuilds == {"truncate", "raise"}

\* The salt gensalt draws in the run that starts at clock reading t: sixteen
\* bytes of os.urandom, which the model takes to differ from run to run.
FreshSalt(t) ==
    "Salt" \o SubSeq("rrrrrrrrrrrrrrrrrr", 1, BcryptSaltChars - 4 - Len(NatStr(t)))
           \o NatStr(t)

GenSalt(rounds, rnd) == "$2b$" \o rounds \o "$" \o rnd

ValidSalt(salt) ==
    /\ Len(salt) >= BcryptSaltStringLen
    /\ SubSeq(salt, 1, BcryptPrefixLen) \in BcryptPrefixes
    /\ SubSeq(salt, 7, 7) = "$"

Digest(saltString, key) == key

\* A hashpw that returns the password as it was given.
HashpwIdentity(build, password, salt) == password

Hashpw(build, password, salt) ==
    IF ~ValidSalt(salt) THEN ValueError
    ELSE IF Len(password) > BcryptMaxBytes /\ build = "raise" THEN ValueError
    ELSE SubSeq(salt, 1, BcryptSaltStringLen)
            \o Digest(SubSeq(salt, 1, BcryptSaltStringLen),
                      SubSeq(password, 1, Min(Len(password), BcryptMaxBytes)))

\* TRUE, FALSE or ValueError
Checkpw(build, password, hashed) ==
    IF Hashpw(build, password, hashed) = ValueError THEN ValueError
    ELSE IF Hashpw(build, password, hashed) = hashed THEN "True" ELSE "False"


-----------------------------------------------------------------------------
(* Password hashing and verification as the scripts do it.                 *)

\* A hash_password that hashes the empty password, whatever it is given.
HashPasswordOfNothing(build, password, rnd) == Hashpw(build, "", GenSalt(Rounds10, rnd))

\* restore_users.hash_password / create_users_refcheck.hash_password:
\* gensalt(10), hashpw, decode.  rnd is the salt gensalt draws.
hash_password(build, password, rnd) == Hashpw(build, password, GenSalt(Rounds10, rnd))

\* create_user, create_admin, reset_password: gensalt() with the default cost.
HashDefaultRounds(build, password, rnd) ==
    Hashpw(build, password, GenSalt(DefaultRounds, rnd))

\* A prefix test that knows the $2b$ version only.
LooksHashedOnly2b(stored) == StartsWith(stored, "$2b$")

\* The prefix test of test_login and check_user.
LooksHashed(stored) ==
    \/ StartsWith(stored, "$2b$")
    \/ StartsWith(stored, "$2a$")
    \/ StartsWith(stored, "$2y$")

\* test_login's "Проверка пароля" block: the value test_login returns.
VerifyTestLogin(build, stored, password) ==
    IF LooksHashed(stored)
    THEN Checkpw(build, password, stored) = "True"   \* an exception returns False
    ELSE stored = password

\* check_user's "Проверка пароля" block: the verdict it prints.
VerifyCheckUser(build, stored, password) ==
    IF LooksHashed(stored)
    THEN CASE Checkpw(build, password, stored) = "True" -> "password_correct"
           [] Checkpw(build, password, stored) = "False" -> "password_wrong"
           [] OTHER -> "verify_error"
    ELSE IF stored = password THEN "plain_match" ELSE "plain_mismatch"

-----------------------------------------------------------------------------
(* Inputs of the hashing specification.                                    *)

Long72 == "aaaaaaaaaaaaaaaaaaaaaaaaaaaaaaaaaaaaaaaaaaaaaaaaaaaaaaaaaaaaaaaaaaaaaaaa"

DEFAULT_PASSWORD == "12345678"

HashPasswords ==
    {"", DEFAULT_PASSWORD, "admin123", "wrongpass", Long72,
     Long72 \o "X", Long72 \o "Y"}

\* Secrets a users record can hold: hashes of the three versions, legacy
\* plaintext, a plaintext that only resembles a hash, a malformed hash.
StoredSecrets ==
    {"$2b$10$" \o SaltA \o "admin123",
     "$2a$10$" \o SaltA \o "admin123",
     "$2y$12$" \o SaltB \o DEFAULT_PASSWORD,
     "$2x$10$" \o SaltA \o "admin123",
     "$2b$oops",
     "admin123",
     DEFAULT_PASSWORD}

NoRun == [script |-> "none"]

\* hash_password(plain), then both verification paths on its result.
HashAndVerify(plain, password, rnd) ==
    /\ last' = IF hash_password(bcryptBuild, plain, rnd) = ValueError
               THEN [script |-> "hash_verify", plain |-> plain, raised |-> TRUE]
               ELSE [script |-> "hash_verify", plain |-> plain, raised |-> FALSE,
                     stored |-> hash_password(bcryptBuild, plain, rnd),
                     password |-> password,
                     ok |-> VerifyTestLogin(bcryptBuild,
                               hash_password(bcryptBuild, plain, rnd), password),
                     verdict |-> VerifyCheckUser(bcryptBuild,
                               hash_password(bcryptBuild, plain, rnd), password)]
    /\ UNCHANGED <<users, cities, fridges, checkins, nextId, now, bcryptBuild>>

\* Both verification paths on a secret already stored.
VerifyStored(stored, password) ==
    /\ last' = [script |-> "verify", stored |-> stored, password |-> password,
                ok |-> VerifyTestLogin(bcryptBuild, stored, password),
                verdict |-> VerifyCheckUser(bcryptBuild, stored, password)]
    /\ UNCHANGED <<users, cities, fridges, checkins, nextId, now, bcryptBuild>>

InitHash ==
    /\ users = <<>> /\ cities = <<>> /\ fridges = <<>> /\ checkins = <<>>
    /\ nextId = 1 /\ now = 0
    /\ bcryptBuild \in BcryptBuilds
    /\ last = NoRun

NextHash ==
    \/ \E plain \in HashPasswords, password \in HashPasswords, rnd \in RandomSalts :
          HashAndVerify(plain, password, rnd)
    \/ \E stored \in StoredSecrets, password \in HashPasswords :
          VerifyStored(stored, password)

SpecHash == InitHash /\ [][NextHash]_vars

-----------------------------------------------------------------------------
(* The document store: pymongo's find_one, insert_one, update_one.         *)

\* Time passes between two runs: every run starts at a later clock reading
\* than the one before it.  MaxClock bounds the runs of a behaviour.
CanRun == now <= MaxClock
Tick == CanRun /\ now' = now + 1

None == 0     \* Python's None where an ObjectId may stand; ObjectIds are >= 1

Has(doc, field) == field \in DOMAIN doc

\* A query that no document satisfies.
MatchesNever(doc, field, value) == FALSE

Matches(doc, field, value) == Has(doc, field) /\ doc[field] = value

\* A lookup that never finds the document.
FindOneFindsNothing(coll, field, value) == 0

\* find_one({field: value}): the index of the first match, 0 when none.
FindOne(coll, field, value) ==
    IF \E i \in 1..Len(coll) : Matches(coll[i], field, value)
    THEN CHOOSE i \in 1..Len(coll) :
            /\ Matches(coll[i], field, value)
            /\ \A j \in 1..(i - 1) : ~Matches(coll[j], field, value)
    ELSE 0

\* {"$set": upd} applied to one document.
SetFields(doc, upd) ==
    [k \in DOMAIN doc \cup DOMAIN upd |-> IF k \in DOMAIN upd THEN upd[k] ELSE doc[k]]

\* insert_one(doc): the driver adds the _id it generates.
InsertOne(coll, doc, id) == Append(coll, SetFields(doc, [_id |-> id]))

\* An update that replaces the document by the fields it was given.
UpdateOneReplaces(coll, field, value, upd) ==
    LET at == FindOne(coll, field, value) IN
    IF at = 0 THEN coll ELSE [coll EXCEPT ![at] = SetFields([_id |-> @._id], upd)]

\* update_one({field: value}, {"$set": upd}): the collection afterwards.
UpdateOne(coll, field, value, upd) ==
    LET at == FindOne(coll, field, value) IN
    IF at = 0 THEN coll ELSE [coll EXCEPT ![at] = SetFields(@, upd)]

\* result.modified_count of that update_one.
ModifiedCount(coll, field, value, upd) ==
    LET at == FindOne(coll, field, value) IN
    IF at = 0 \/ SetFields(coll[at], upd) = coll[at] THEN 0 ELSE 1

Usernames(coll) == {coll[i].username : i \in {j \in 1..Len(coll) : Has(coll[j], "username")}}

-----------------------------------------------------------------------------
(* create_user.py                                                          *)

NoArg == "<absent>"     \* a position of sys.argv that was not given

\* A role check that lets every role of the application through.
AcceptedRolesAll == {"manager", "admin", "accountant"}

\* The roles create_user.py accepts on its command line.
AcceptedRoles == {"manager", "admin"}

\* create_user.py __main__ and create_user().  argv is sys.argv[1:];
\* fault names the database call that raises ("none": no call does).
CreateUserRun(argv, rnd, fault) ==
    LET username == argv[1]
        email    == argv[2]
        password == argv[3]
        role     == IF Len(argv) > 3 THEN argv[4] ELSE "manager"
        fullName == IF Len(argv) > 4 THEN argv[5] ELSE NoArg
        shown    == IF fullName = NoArg \/ fullName = "" THEN username ELSE fullName
        hashed   == HashDefaultRounds(bcryptBuild, password, rnd)
        base     == [script |-> "create_user", argv |-> argv, wrote |-> FALSE]
    IN
    IF Len(argv) < 3
    THEN /\ last' = base @@ [out |-> "usage", exit |-> 1, uncaught |-> FALSE,
                             closed |-> FALSE]
         /\ UNCHANGED <<users, nextId>>
    ELSE IF role \notin AcceptedRoles
    THEN /\ last' = base @@ [out |-> "bad_role", exit |-> 1, uncaught |-> FALSE,
                             closed |-> FALSE]
         /\ UNCHANGED <<users, nextId>>
    ELSE IF fault = "find"
    THEN /\ last' = base @@ [out |-> "traceback", exit |-> 1, uncaught |-> TRUE,
                             closed |-> FALSE]
         /\ UNCHANGED <<users, nextId>>
    ELSE IF FindOne(users, "username", username) # 0
    THEN /\ last' = base @@ [out |-> "exists", ret |-> FALSE, exit |-> 0,
                             uncaught |-> FALSE, closed |-> TRUE]
         /\ UNCHANGED <<users, nextId>>
    ELSE IF hashed = ValueError \/ fault = "write"
    THEN /\ last' = base @@ [out |-> "traceback", exit |-> 1, uncaught |-> TRUE,
                             closed |-> FALSE]
         /\ UNCHANGED <<users, nextId>>
    ELSE /\ users' = InsertOne(users,
                        [username |-> username, email |-> email, password |-> hashed,
                         role |-> role, fullName |-> shown, active |-> TRUE],
                        nextId)
         /\ nextId' = nextId + 1
         /\ last' = [base EXCEPT !.wrote = TRUE]
                       @@ [out |-> "created", ret |-> TRUE, exit |-> 0,
                           uncaught |-> FALSE, closed |-> TRUE]

CreateUser(argv, rnd, fault) ==
    /\ Tick
    /\ CreateUserRun(argv, rnd, fault)
    /\ UNCHANGED <<cities, fridges, checkins, bcryptBuild>>

-----------------------------------------------------------------------------
(* create_admin.py                                                         *)

admin_username == "admin"
admin_email == "ersul143@gmail.com"
admin_password == "Admin123!"
admin_role == "admin"
admin_fullName == "Glavnyi admin"     \* "Главный админ"

CreateAdminRun(rnd, fault) ==
    LET hashed == HashDefaultRounds(bcryptBuild, admin_password, rnd)
        base   == [script |-> "create_admin", wrote |-> FALSE]
    IN
    IF fault = "find"
    THEN /\ last' = base @@ [out |-> "traceback", exit |-> 1, uncaught |-> TRUE,
                             closed |-> FALSE]
         /\ UNCHANGED <<users, nextId>>
    ELSE IF FindOne(users, "username", admin_username) # 0
    THEN /\ last' = base @@ [out |-> "exists", exit |-> 0, uncaught |-> FALSE,
                             closed |-> TRUE]
         /\ UNCHANGED <<users, nextId>>
    ELSE IF fault = "write"
    THEN /\ last' = base @@ [out |-> "traceback", exit |-> 1, uncaught |-> TRUE,
                             closed |-> FALSE]
         /\ UNCHANGED <<users, nextId>>
    ELSE /\ users' = InsertOne(users,
                        [username |-> admin_username, email |-> admin_email,
                         password |-> hashed, role |-> admin_role,
                         fullName |-> admin_fullName, active |-> TRUE],
                        nextId)
         /\ nextId' = nextId + 1
         /\ last' = [base EXCEPT !.wrote = TRUE]
                       @@ [out |-> "created", exit |-> 0, uncaught |-> FALSE,
                           closed |-> TRUE]

CreateAdmin(rnd, fault) ==
    /\ Tick
    /\ CreateAdminRun(rnd, fault)
    /\ UNCHANGED <<cities, fridges, checkins, bcryptBuild>>

-----------------------------------------------------------------------------
(* create_accountant.py.  typed holds what the operator types at the four  *)
(* prompts; a prompt the script never reaches reads nothing.               *)

CreateAccountantRun(typed, rnd, fault) ==
    LET cityAt    == FindOne(cities, "code", "taras")
        city_id   == IF cityAt = 0 THEN None ELSE cities[cityAt]._id
        username  == Strip(typed.username)
        email     == IF Strip(typed.email) = "" THEN username \o "@example.com"
                     ELSE Strip(typed.email)
        password  == Strip(typed.password)
        full_name == IF Strip(typed.fullName) = "" THEN username
                     ELSE Strip(typed.fullName)
        hashed    == Hashpw(bcryptBuild, password, GenSalt(Rounds10, rnd))
        user_doc  == [username |-> username, email |-> email, password |-> hashed,
                      role |-> "accountant", fullName |-> full_name, active |-> TRUE]
        base      == [script |-> "create_accountant", typed |-> typed,
                      wrote |-> FALSE, closed |-> FALSE]
    IN
    IF fault = "city"
    THEN /\ last' = base @@ [out |-> "traceback", exit |-> 1, uncaught |-> TRUE]
         /\ UNCHANGED <<users, nextId>>
    ELSE IF username = ""
    THEN /\ last' = base @@ [out |-> "username_required", exit |-> 0,
                             uncaught |-> FALSE]
         /\ UNCHANGED <<users, nextId>>
    ELSE IF fault = "find"
    THEN /\ last' = base @@ [out |-> "traceback", exit |-> 1, uncaught |-> TRUE]
         /\ UNCHANGED <<users, nextId>>
    ELSE IF FindOne(users, "username", username) # 0
    THEN /\ last' = base @@ [out |-> "exists", exit |-> 0, uncaught |-> FALSE]
         /\ UNCHANGED <<users, nextId>>
    ELSE IF password = ""
    THEN /\ last' = base @@ [out |-> "password_required", exit |-> 0,
                             uncaught |-> FALSE]
         /\ UNCHANGED <<users, nextId>>
    ELSE IF hashed = ValueError \/ fault = "write"
    THEN /\ last' = base @@ [out |-> "traceback", exit |-> 1, uncaught |-> TRUE]
         /\ UNCHANGED <<users, nextId>>
    ELSE /\ users' = InsertOne(users,
                        IF city_id # None
                        THEN SetFields(user_doc, [cityId |-> city_id])
                        ELSE user_doc,
                        nextId)
         /\ nextId' = nextId + 1
         /\ last' = [base EXCEPT !.wrote = TRUE]
                       @@ [out |-> "created", exit |-> 0, uncaught |-> FALSE]

CreateAccountant(typed, rnd, fault) ==
    /\ Tick
    /\ CreateAccountantRun(typed, rnd, fault)
    /\ UNCHANGED <<cities, fridges, checkins, bcryptBuild>>

-----------------------------------------------------------------------------
(* reset_password.py                                                       *)

\* reset_password(username, new_password)
ResetPasswordCall(base, username, new_password, rnd, fault) ==
    LET hashed == HashDefaultRounds(bcryptBuild, new_password, rnd) IN
    IF fault = "find"
    THEN /\ last' = base @@ [out |-> "traceback", exit |-> 1, uncaught |-> TRUE]
         /\ UNCHANGED users
    ELSE IF FindOne(users, "username", username) = 0
    THEN /\ last' = base @@ [out |-> "not_found", ret |-> FALSE, exit |-> 0,
                             uncaught |-> FALSE]
         /\ UNCHANGED users
    ELSE IF hashed = ValueError \/ fault = "write"
    THEN /\ last' = base @@ [out |-> "traceback", exit |-> 1, uncaught |-> TRUE]
         /\ UNCHANGED users
    ELSE /\ users' = UpdateOne(users, "username", username, [password |-> hashed])
         /\ last' = [base EXCEPT !.wrote = TRUE]
                       @@ [out |-> "changed", ret |-> TRUE, exit |-> 0,
                           uncaught |-> FALSE]

\* __main__: argv is sys.argv[1:]
ResetPasswordRun(argv, rnd, fault) ==
    LET base == [script |-> "reset_password", argv |-> argv, wrote |-> FALSE,
                 closed |-> FALSE]
    IN
    IF Len(argv) < 1
    THEN /\ last' = base @@ [out |-> "usage", exit |-> 1, uncaught |-> FALSE]
         /\ UNCHANGED users
    ELSE IF argv[1] = "list"
    THEN /\ last' = IF fault = "find"
                    THEN base @@ [out |-> "traceback", exit |-> 1, uncaught |-> TRUE]
                    ELSE base @@ [out |-> "listed", exit |-> 0, uncaught |-> FALSE]
         /\ UNCHANGED users
    ELSE IF argv[1] = "reset"
    THEN IF Len(argv) < 3
         THEN /\ last' = base @@ [out |-> "reset_usage", exit |-> 1,
                                  uncaught |-> FALSE]
              /\ UNCHANGED users
         ELSE ResetPasswordCall(base, argv[2], argv[3], rnd, fault)
    ELSE /\ last' = base @@ [out |-> "unknown_command", exit |-> 1,
                             uncaught |-> FALSE]
         /\ UNCHANGED users

ResetPassword(argv, rnd, fault) ==
    /\ Tick
    /\ ResetPasswordRun(argv, rnd, fault)
    /\ UNCHANGED <<cities, fridges, checkins, nextId, bcryptBuild>>

-----------------------------------------------------------------------------
(* restore_users.py and create_users_refcheck.py: the bulk upsert.         *)

\* city_map: one entry per city code, in the order the codes first appear,
\* holding the _id of the last city with that code (a dict assignment).
RECURSIVE CityMap(_, _, _)
CityMap(cs, i, city_map) ==
    IF i > Len(cs) THEN city_map
    ELSE CityMap(cs, i + 1,
            IF FindOne(city_map, "code", cs[i].code) = 0
            THEN Append(city_map, [code |-> cs[i].code, city_id |-> cs[i]._id])
            ELSE [city_map EXCEPT ![FindOne(city_map, "code", cs[i].code)] =
                     [code |-> cs[i].code, city_id |-> cs[i]._id]])

CityName(city_id) ==
    IF FindOne(cities, "_id", city_id) = 0 THEN "Unknown"
    ELSE IF Has(cities[FindOne(cities, "_id", city_id)], "name")
         THEN cities[FindOne(cities, "_id", city_id)].name
         ELSE "Unknown"

AdminEntry ==
    [username |-> "admin", role |-> "admin", fullName |-> admin_fullName,
     active |-> TRUE, cityId |-> None]

\* users_to_restore / users_to_create: "TP" is "ТП", "Buhgalter" is "Бухгалтер"
RECURSIVE UsersToCreate(_, _)
UsersToCreate(cmap, i) ==
    IF i = 0 THEN <<AdminEntry>>
    ELSE UsersToCreate(cmap, i - 1) \o
         << [username |-> cmap[i].code, role |-> "manager",
             fullName |-> "TP " \o CityName(cmap[i].city_id),
             active |-> TRUE, cityId |-> cmap[i].city_id],
            [username |-> cmap[i].code \o "-b", role |-> "accountant",
             fullName |-> "Buhgalter " \o CityName(cmap[i].city_id),
             active |-> TRUE, cityId |-> cmap[i].city_id] >>

\* An update that also stamps createdAt.
UpdateDataWithCreatedAt(e, hashed, t) ==
    [password |-> hashed, active |-> e.active, role |-> e.role,
     fullName |-> e.fullName, updatedAt |-> t, createdAt |-> t]

\* update_data["$set"] for an existing user.
UpdateDataKeepsRole(e, hashed, t) ==
    [password |-> hashed, updatedAt |-> t]

UpdateData(e, hashed, t) ==
    IF e.cityId # None
    THEN [password |-> hashed, active |-> e.active, role |-> e.role,
          fullName |-> e.fullName, updatedAt |-> t, cityId |-> e.cityId]
    ELSE [password |-> hashed, active |-> e.active, role |-> e.role,
          fullName |-> e.fullName, updatedAt |-> t]

\* new_user for a username not in the collection.
NewUser(e, hashed, t) ==
    IF e.cityId # None
    THEN [username |-> e.username, password |-> hashed, role |-> e.role,
          fullName |-> e.fullName, active |-> e.active,
          createdAt |-> t, updatedAt |-> t, cityId |-> e.cityId]
    ELSE [username |-> e.username, password |-> hashed, role |-> e.role,
          fullName |-> e.fullName, active |-> e.active,
          createdAt |-> t, updatedAt |-> t]

\* The upsert without its lookup: every entry is inserted.
UpsertOneAlwaysInserts(acc, e, hashed, t) ==
    [users |-> InsertOne(acc.users, NewUser(e, hashed, t), acc.nextId),
     nextId |-> acc.nextId + 1,
     outcomes |-> Append(acc.outcomes, "created")]

\* The body of the try block for one entry, when no call raises.
UpsertOne(acc, e, hashed, t) ==
    IF FindOne(acc.users, "username", e.username) # 0
    THEN [users |-> UpdateOne(acc.users, "username", e.username,
                              UpdateData(e, hashed, t)),
          nextId |-> acc.nextId,
          outcomes |-> Append(acc.outcomes,
              IF ModifiedCount(acc.users, "username", e.username,
                               UpdateData(e, hashed, t)) > 0
              THEN "updated" ELSE "skipped")]
    ELSE [users |-> InsertOne(acc.users, NewUser(e, hashed, t), acc.nextId),
          nextId |-> acc.nextId + 1,
          outcomes |-> Append(acc.outcomes, "created")]

\* A pass whose except branch records nothing.
UpsertStepForgetsError(acc, e, failed, hashed, t) ==
    IF failed THEN acc ELSE UpsertOne(acc, e, hashed, t)

\* One pass of the for loop: the except branch records the error and the
\* loop goes on with the next entry.
UpsertStep(acc, e, failed, hashed, t) ==
    IF failed
    THEN [acc EXCEPT !.outcomes = Append(@, "error")]
    ELSE UpsertOne(acc, e, hashed, t)

\* A loop that gives up at the first entry that fails.
RECURSIVE UpsertLoopStopsAtError(_, _, _, _, _, _)
UpsertLoopStopsAtError(acc, entries, i, F, hashed, t) ==
    IF i > Len(entries) THEN acc
    ELSE IF i \in F THEN [acc EXCEPT !.outcomes = Append(@, "error")]
    ELSE UpsertLoopStopsAtError(UpsertStep(acc, entries[i], FALSE, hashed, t),
                                entries, i + 1, F, hashed, t)

RECURSIVE UpsertLoop(_, _, _, _, _, _)
UpsertLoop(acc, entries, i, F, hashed, t) ==
    IF i > Len(entries) THEN acc
    ELSE UpsertLoop(UpsertStep(acc, entries[i], i \in F, hashed, t),
                    entries, i + 1, F, hashed, t)

Count(seq, x) == Cardinality({i \in 1..Len(seq) : seq[i] = x})

\* A whole run.  crash names the database call outside the loop that raises
\* ("cities": reading the cities; "count": create_users' final count).
BulkUpsertRun(script, rnd, F, crash) ==
    LET hashed  == hash_password(bcryptBuild, DEFAULT_PASSWORD, rnd)
        base    == [script |-> script, hashed |-> hashed, at |-> now]
    IN
    /\ Tick
    /\ IF crash = "cities"
       THEN /\ F = {}
            /\ last' = base @@ [entries |-> <<>>, outcomes |-> <<>>, faults |-> {},
                                summary |-> FALSE, exit |-> 1, uncaught |-> TRUE,
                                closed |-> FALSE]
            /\ UNCHANGED <<users, nextId>>
       ELSE \E city_map \in {CityMap(cities, 1, <<>>)} :
            \E entries \in {UsersToCreate(city_map, Len(city_map))} :
            /\ F \subseteq 1..Len(entries)
            /\ \E done \in {UpsertLoop([users |-> users, nextId |-> nextId,
                                         outcomes |-> <<>>],
                                        entries, 1, F, hashed, now)} :
               /\ users' = done.users
               /\ nextId' = done.nextId
               /\ last' = base @@
                     [entries |-> entries, outcomes |-> done.outcomes, faults |-> F,
                      summary |-> TRUE,
                      created |-> Count(done.outcomes, "created"),
                      updated |-> Count(done.outcomes, "updated"),
                      skipped |-> Count(done.outcomes, "skipped"),
                      errors  |-> Count(done.outcomes, "error"),
                      exit |-> IF crash = "count" THEN 1 ELSE 0,
                      uncaught |-> (crash = "count"),
                      closed |-> (crash # "count")]

RestoreUsers(rnd, F, crash) ==
    /\ crash \in {"none", "cities"}
    /\ BulkUpsertRun("restore_users", rnd, F, crash)
    /\ UNCHANGED <<cities, fridges, checkins, bcryptBuild>>

CreateUsers(rnd, F, crash) ==
    /\ crash \in {"none", "cities", "count"}
    /\ BulkUpsertRun("create_users", rnd, F, crash)
    /\ UNCHANGED <<cities, fridges, checkins, bcryptBuild>>

-----------------------------------------------------------------------------
(* The users specification: the scripts that write the users collection,   *)
(* run one after another in any order on inputs from small sets.           *)

LegacyAdmin ==
    [_id |-> 1, username |-> "admin", email |-> "old@example.com",
     password |-> "admin123", role |-> "admin", fullName |-> "Old admin",
     active |-> FALSE, cityId |-> 9, createdAt |-> 0, updatedAt |-> 0]

Clerk02b ==
    [_id |-> 2, username |-> "02-b", email |-> "clerk@example.com",
     password |-> "$2a$10$" \o SaltA \o "secret", role |-> "manager",
     fullName |-> "Clerk", active |-> TRUE, createdAt |-> 0, updatedAt |-> 0]

InitialUsers == {<<>>, <<LegacyAdmin>>, <<Clerk02b, LegacyAdmin>>}

City02 == [_id |-> 11, code |-> "02", name |-> "Almaty", active |-> TRUE]
City02b == [_id |-> 12, code |-> "02-b", name |-> "Branch", active |-> TRUE]
CityAdmin == [_id |-> 13, code |-> "admin", name |-> "Office", active |-> TRUE]
CityTaras == [_id |-> 14, code |-> "taras", name |-> "Taraz", active |-> TRUE]

InitialCities == {<<>>, <<City02, City02b>>, <<CityAdmin>>, <<CityTaras>>}

FirstFreeId == 100

CreateUserArgvs ==
    {<<>>, <<"manager1", "m@example.com">>,
     <<"manager1", "m@example.com", "Password123">>,
     <<"", "m@example.com", "Password123">>,
     <<"manager1", "m@example.com", "">>,
     <<"admin", "a@example.com", "Admin123!", "admin", "Ivan">>,
     <<"manager1", "m@example.com", "Password123", "accountant">>}

AccountantTyped ==
    {[username |-> " ", email |-> "", password |-> "", fullName |-> ""],
     [username |-> "acc", email |-> "", password |-> " ", fullName |-> ""],
     [username |-> " acc ", email |-> "", password |-> "secret", fullName |-> ""],
     [username |-> "admin", email |-> "", password |-> "secret", fullName |-> "Petr"]}

ResetArgvs ==
    {<<>>, <<"list">>, <<"reset">>, <<"purge">>,
     <<"reset", "admin", "newpass">>,
     <<"reset", "admin", Long72 \o "X">>,
     <<"reset", "nobody", "newpass">>}

\* The database calls of a script that may raise, within MaxFaults.
FaultChoices(points) == IF MaxFaults > 0 THEN {"none"} \cup points ELSE {"none"}

FaultSets(n) == {F \in SUBSET (1..n) : Cardinality(F) <= MaxFaults}

\* Every entry index a bulk run can have: admin and two entries per city.
MaxEntries == 5

BulkFaults ==
    {fc \in FaultSets(MaxEntries) \X {"none", "cities", "count"} :
        Cardinality(fc[1]) + (IF fc[2] = "none" THEN 0 ELSE 1) <= MaxFaults}

InitUsers ==
    /\ users \in InitialUsers
    /\ cities \in InitialCities
    /\ fridges = <<>> /\ checkins = <<>>
    /\ nextId = FirstFreeId /\ now = 1
    /\ bcryptBuild \in BcryptBuilds
    /\ last = NoRun

CreateUserAny ==
    /\ CanRun
    /\ \E argv \in CreateUserArgvs, fault \in FaultChoices({"find", "write"}) :
           CreateUser(argv, FreshSalt(now), fault)

CreateAdminAny ==
    /\ CanRun
    /\ \E fault \in FaultChoices({"find", "write"}) :
           CreateAdmin(FreshSalt(now), fault)

CreateAccountantAny ==
    /\ CanRun
    /\ \E typed \in AccountantTyped,
          fault \in FaultChoices({"city", "find", "write"}) :
           CreateAccountant(typed, FreshSalt(now), fault)

ResetPasswordAny ==
    /\ CanRun
    /\ \E argv \in ResetArgvs, fault \in FaultChoices({"find", "write"}) :
           ResetPassword(argv, FreshSalt(now), fault)

RestoreUsersAny ==
    /\ CanRun
    /\ \E fc \in BulkFaults : RestoreUsers(FreshSalt(now), fc[1], fc[2])

CreateUsersAny ==
    /\ CanRun
    /\ \E fc \in BulkFaults : CreateUsers(FreshSalt(now), fc[1], fc[2])

NextUsers ==
    \/ CreateUserAny
    \/ CreateAdminAny
    \/ CreateAccountantAny
    \/ ResetPasswordAny
    \/ RestoreUsersAny
    \/ CreateUsersAny

SpecUsers == InitUsers /\ [][NextUsers]_vars

-----------------------------------------------------------------------------
(* import_fridges.py                                                       *)

Null == "<null>"      \* None in a field that otherwise holds a string

\* f"{n:04d}"
Fmt04(n) ==
    IF Len(NatStr(n)) >= 4 THEN NatStr(n)
    ELSE SubSeq("0000", 1, 4 - Len(NatStr(n))) \o NatStr(n)

\* s[:n]
Prefix(s, n) == SubSeq(s, 1, Min(Len(s), n))

NameLimit == 200
DescriptionLimit == 500

\* str(cell).strip(), and the test "if x and x != 'nan'"
Cell(row, column) == IF Has(row, column) THEN Strip(row[column]) ELSE ""
Present(text) == text # "" /\ text # "nan"

\* "; ".join(parts)
RECURSIVE Join(_)
Join(parts) ==
    IF Len(parts) = 0 THEN ""
    ELSE IF Len(parts) = 1 THEN parts[1]
    ELSE parts[1] \o "; " \o Join(Tail(parts))

\* The record built from one spreadsheet row (idx is the row's label);
\* uuid8 is uuid.uuid4().hex[:8].upper().  "Dogovor" is "Договор".
FridgeRecord(row, uuid8, city_id) ==
    LET contract_num == Cell(row, "contract_number")
        code == IF Present(contract_num)
                THEN "FR-" \o contract_num \o "-" \o Fmt04(row.idx + 1)
                ELSE "FR-" \o uuid8
        tp   == Cell(row, "tp")
        name == IF Present(Cell(row, "contractor")) THEN Cell(row, "contractor")
                ELSE "Holodilnik " \o NatStr(row.idx + 1)
        parts ==
            (IF Present(contract_num) THEN <<"Dogovor: " \o contract_num>> ELSE <<>>)
            \o (IF Present(Cell(row, "quantity"))
                THEN <<"Kol-vo: " \o Cell(row, "quantity")>> ELSE <<>>)
            \o (IF Present(Cell(row, "spv"))
                THEN <<"SPV: " \o Cell(row, "spv")>> ELSE <<>>)
            \o (IF Present(tp) THEN <<"TP: " \o tp>> ELSE <<>>)
    IN [code |-> code,
        name |-> Prefix(name, NameLimit),
        cityId |-> city_id,
        address |-> Null,
        description |-> IF Len(parts) > 0 THEN Prefix(Join(parts), DescriptionLimit)
                        ELSE Null,
        location |-> [type |-> "Point", coordinates |-> <<0, 0>>],
        active |-> TRUE]

\* records: one per row of the cleaned sheet
Records(rows, uuids, city_id) ==
    [i \in 1..Len(rows) |-> FridgeRecord(rows[i], uuids[i], city_id)]

\* unique_records: the first record of every code, in order (seen_codes is
\* the set of codes of the records kept so far)
RECURSIVE UniqueRecords(_, _, _)
UniqueRecords(records, i, kept) ==
    IF i > Len(records) THEN kept
    ELSE UniqueRecords(records, i + 1,
                       IF FindOne(kept, "code", records[i].code) # 0 THEN kept
                       ELSE Append(kept, records[i]))

\* A pass that overwrites the document that already holds the code.
ImportStepOverwrites(acc, record, failed) ==
    IF failed
    THEN [acc EXCEPT !.outcomes = Append(@, "error")]
    ELSE IF FindOne(acc.fridges, "code", record.code) # 0
    THEN [acc EXCEPT !.fridges[FindOne(acc.fridges, "code", record.code)] = record,
                     !.outcomes = Append(@, "duplicate")]
    ELSE [fridges |-> InsertOne(acc.fridges, record, acc.nextId),
          nextId |-> acc.nextId + 1,
          outcomes |-> Append(acc.outcomes, "imported")]

\* One pass of the insert loop.
ImportStep(acc, record, failed) ==
    IF failed
    THEN [acc EXCEPT !.outcomes = Append(@, "error")]
    ELSE IF FindOne(acc.fridges, "code", record.code) # 0
    THEN [acc EXCEPT !.outcomes = Append(@, "duplicate")]
    ELSE [fridges |-> InsertOne(acc.fridges, record, acc.nextId),
          nextId |-> acc.nextId + 1,
          outcomes |-> Append(acc.outcomes, "imported")]

RECURSIVE ImportLoop(_, _, _, _)
ImportLoop(acc, records, i, F) ==
    IF i > Len(records) THEN acc
    ELSE ImportLoop(ImportStep(acc, records[i], i \in F), records, i + 1, F)

\* A whole run on the sheet rows.  crash names the database call outside
\* the insert loop that raises: "city" (the lookup of the city), "count"
\* (the count before the loop), "total" (the count after the summary).
ImportFridgesRun(rows, uuids, F, crash) ==
    LET cityAt  == FindOne(cities, "code", "taras")
        city_id == IF cityAt = 0 THEN nextId ELSE cities[cityAt]._id
        idAfter == IF cityAt = 0 THEN nextId + 1 ELSE nextId
        base    == [script |-> "import_fridges", rows |-> rows]
        crashed == [codes |-> <<>>, outcomes |-> <<>>, faults |-> {},
                    summary |-> FALSE, exit |-> 1, uncaught |-> TRUE,
                    closed |-> FALSE]
    IN
    \E unique_records \in {UniqueRecords(Records(rows, uuids, city_id), 1, <<>>)} :
    \E done \in {ImportLoop([fridges |-> fridges, nextId |-> idAfter,
                             outcomes |-> <<>>], unique_records, 1, F)} :
    /\ F \subseteq 1..Len(unique_records)
    /\ IF crash = "city"
       THEN /\ last' = base @@ crashed
            /\ UNCHANGED <<cities, fridges, nextId>>
       ELSE /\ cities' = IF cityAt = 0
                         THEN InsertOne(cities,
                                  [name |-> "Taraz", code |-> "taras",
                                   active |-> TRUE], nextId)
                         ELSE cities
            /\ IF crash = "count"
               THEN /\ last' = base @@ crashed
                    /\ nextId' = idAfter
                    /\ UNCHANGED fridges
               ELSE /\ fridges' = done.fridges
                    /\ nextId' = done.nextId
                    /\ last' = base @@
                          [codes |-> [i \in 1..Len(unique_records) |->
                                         unique_records[i].code],
                           outcomes |-> done.outcomes, faults |-> F,
                           summary |-> TRUE,
                           imported |-> Count(done.outcomes, "imported"),
                           duplicates |-> Count(done.outcomes, "duplicate"),
                           errors |-> Count(done.outcomes, "error"),
                           exit |-> IF crash = "total" THEN 1 ELSE 0,
                           uncaught |-> (crash = "total"),
                           closed |-> (crash # "total")]

ImportFridges(rows, uuids, F, crash) ==
    /\ Tick
    /\ ImportFridgesRun(rows, uuids, F, crash)
    /\ UNCHANGED <<users, checkins, bcryptBuild>>

-----------------------------------------------------------------------------
(* update_fridge_codes.py                                                  *)

\* doc.get(field) of a string field: None when the document has none
Get(doc, field) == IF Has(doc, field) THEN doc[field] ELSE Null

\* A query {field: value}: a None value matches a missing field as well.
MatchesStr(doc, field, value) == Get(doc, field) = value

FindOneStr(coll, field, value) ==
    IF \E i \in 1..Len(coll) : MatchesStr(coll[i], field, value)
    THEN CHOOSE i \in 1..Len(coll) :
            /\ MatchesStr(coll[i], field, value)
            /\ \A j \in 1..(i - 1) : ~MatchesStr(coll[j], field, value)
    ELSE 0

\* update_many({field: value}, {"$set": upd})
UpdateMany(coll, field, value, upd) ==
    [i \in 1..Len(coll) |->
        IF MatchesStr(coll[i], field, value) THEN SetFields(coll[i], upd) ELSE coll[i]]

\* sort("createdAt", 1): documents without the field come first; documents
\* with equal keys come in an order the server chooses.
SortKey(doc) == IF Has(doc, "createdAt") THEN doc.createdAt + 1 ELSE 0

IsSortedOrder(coll, p) ==
    /\ DOMAIN p = 1..Len(coll)
    /\ \A i \in 1..Len(coll) : p[i] \in 1..Len(coll)
    /\ \A i, j \in 1..Len(coll) : i < j => p[i] # p[j]
    /\ \A i, j \in 1..Len(coll) :
          i < j => SortKey(coll[p[i]]) <= SortKey(coll[p[j]])

SortedOrders(coll) ==
    {p \in [1..Len(coll) -> 1..Len(coll)] : IsSortedOrder(coll, p)}

\* old_to_new_code: a dict, one entry per old code in the order the codes
\* first appear, holding the last new code assigned to it.
RECURSIVE OldToNew(_, _, _, _)
OldToNew(coll, order, i, mapping) ==
    IF i > Len(coll) THEN mapping
    ELSE OldToNew(coll, order, i + 1,
            IF FindOne(mapping, "old_code", Get(coll[order[i]], "code")) = 0
            THEN Append(mapping, [old_code |-> Get(coll[order[i]], "code"),
                                  new_code |-> NatStr(i)])
            ELSE [mapping EXCEPT
                    ![FindOne(mapping, "old_code", Get(coll[order[i]], "code"))] =
                        [old_code |-> Get(coll[order[i]], "code"),
                         new_code |-> NatStr(i)]])

\* One pass of the update loop.  failed is "none", "fridge" (update_one
\* raises) or "checkins" (update_many raises).
RenumberStep(acc, item, failed) ==
    LET at == FindOneStr(acc.fridges, "code", item.old_code)
        modified_count ==
            IF at = 0 \/ Get(acc.fridges[at], "code") = item.new_code THEN 0 ELSE 1
        renamed == IF at = 0 THEN acc.fridges
                   ELSE [acc.fridges EXCEPT
                            ![at] = SetFields(@, [code |-> item.new_code])]
    IN
    IF failed = "fridge"
    THEN [acc EXCEPT !.outcomes = Append(@, "error")]
    ELSE IF modified_count = 0
    THEN [acc EXCEPT !.outcomes = Append(@, "unchanged")]
    ELSE IF failed = "checkins"
    THEN [acc EXCEPT !.fridges = renamed, !.outcomes = Append(@, "error")]
    ELSE [fridges |-> renamed,
          checkins |-> UpdateMany(acc.checkins, "fridgeId", item.old_code,
                                  [fridgeId |-> item.new_code]),
          outcomes |-> Append(acc.outcomes, "updated")]

RECURSIVE RenumberLoop(_, _, _, _)
RenumberLoop(acc, mapping, i, failing) ==
    IF i > Len(mapping) THEN acc
    ELSE RenumberLoop(RenumberStep(acc, mapping[i], failing[i]),
                      mapping, i + 1, failing)

\* A whole run.  order is the order the sorted find returns; crash names
\* the database call outside the loop that raises ("find", "sample").
UpdateFridgeCodesRun(order, failing, crash) ==
    LET base == [script |-> "update_fridge_codes", order |-> order] IN
    \E mapping \in {OldToNew(fridges, order, 1, <<>>)} :
    \E done \in {RenumberLoop([fridges |-> fridges, checkins |-> checkins,
                               outcomes |-> <<>>], mapping, 1, failing)} :
    /\ IsSortedOrder(fridges, order)
    /\ DOMAIN failing = 1..Len(mapping)
    /\ IF crash = "find"
       THEN /\ last' = base @@ [out |-> "traceback", summary |-> FALSE, exit |-> 1,
                                uncaught |-> TRUE, closed |-> FALSE]
            /\ UNCHANGED <<fridges, checkins>>
       ELSE IF Len(fridges) = 0
       THEN /\ last' = base @@ [out |-> "no_fridges", summary |-> FALSE, exit |-> 0,
                                uncaught |-> FALSE, closed |-> TRUE]
            /\ UNCHANGED <<fridges, checkins>>
       ELSE /\ fridges' = done.fridges
            /\ checkins' = done.checkins
            /\ last' = base @@
                  [out |-> "done", summary |-> TRUE, mapping |-> mapping,
                   outcomes |-> done.outcomes,
                   updated |-> Count(done.outcomes, "updated"),
                   errors |-> Count(done.outcomes, "error"),
                   exit |-> IF crash = "sample" THEN 1 ELSE 0,
                   uncaught |-> (crash = "sample"),
                   closed |-> (crash # "sample")]

UpdateFridgeCodes(order, failing, crash) ==
    /\ Tick
    /\ UpdateFridgeCodesRun(order, failing, crash)
    /\ UNCHANGED <<users, cities, nextId, bcryptBuild>>

-----------------------------------------------------------------------------
(* The fridges specification: import_fridges and update_fridge_codes run   *)
(* one after another in any order.                                         *)

FridgeA == [_id |-> 21, code |-> "2", name |-> "Shop A", cityId |-> 14,
            active |-> TRUE, createdAt |-> 1]
FridgeB == [_id |-> 22, code |-> "1", name |-> "Shop B", cityId |-> 14,
            active |-> TRUE, createdAt |-> 2]

CheckinA == [_id |-> 31, fridgeId |-> "2", managerId |-> 2]
CheckinB == [_id |-> 32, fridgeId |-> "1", managerId |-> 2]

InitialFridgeData ==
    {<< <<>>, <<>> >>,
     << <<FridgeA, FridgeB>>, <<CheckinA, CheckinB>> >>,
     << <<FridgeB, FridgeA>>, <<CheckinB>> >>}

SheetRow(idx, contract_number, contractor, tp) ==
    [idx |-> idx, contract_number |-> contract_number, contractor |-> contractor,
     quantity |-> "1", spv |-> "", tp |-> tp]

Sheets ==
    {<< SheetRow(7, "A-1", "Shop", "TP1") >>,
     << SheetRow(7, "A-1", "Shop", "TP1"), SheetRow(8, "", "", ""),
        SheetRow(9, " ", "Kiosk", "nan") >>}

UuidPool == {"0A1B2C3D", "FFFFFFFF"}

\* Which pass of a loop raises, and where: at most MaxFaults database calls.
FailingChoices(n, kinds) ==
    {f \in [1..n -> {"none"} \cup kinds] :
        Cardinality({i \in 1..n : f[i] # "none"}) <= MaxFaults}

CrashChoices(F, points) ==
    IF Cardinality(F) < MaxFaults THEN {"none"} \cup points ELSE {"none"}

ImportAny ==
    /\ CanRun
    /\ \E rows \in Sheets :
       \E uuids \in [1..Len(rows) -> UuidPool], F \in FaultSets(Len(rows)) :
       \E crash \in CrashChoices(F, {"city", "count", "total"}) :
           ImportFridges(rows, uuids, F, crash)

UpdateCodesAny ==
    /\ CanRun
    /\ \E order \in SortedOrders(fridges) :
       \E failing \in FailingChoices(Len(OldToNew(fridges, order, 1, <<>>)),
                                     {"fridge", "checkins"}) :
       \E crash \in CrashChoices({i \in DOMAIN failing : failing[i] # "none"},
                                 {"find", "sample"}) :
           UpdateFridgeCodes(order, failing, crash)

InitFridges ==
    /\ users = <<>>
    /\ cities \in {<<>>, <<CityTaras>>}
    /\ \E data \in InitialFridgeData : fridges = data[1] /\ checkins = data[2]
    /\ nextId = FirstFreeId /\ now = 1
    /\ bcryptBuild \in BcryptBuilds
    /\ last = NoRun

NextFridges == ImportAny \/ UpdateCodesAny

SpecFridges == InitFridges /\ [][NextFridges]_vars

-----------------------------------------------------------------------------
(* check_user.py, test_login.py, list_users.py, check_db_connection.py:    *)
(* the scripts that only read.                                             *)

\* An active test that ignores the flag.
IsActiveWhateverTheFlag(doc) == TRUE

\* user.get('active', True)
IsActive(doc) == IF Has(doc, "active") THEN doc.active ELSE TRUE

\* user.get('password', '')
StoredPassword(doc) == IF Has(doc, "password") THEN doc.password ELSE ""

\* A check_user that looks the user up without counting its arguments.
CheckUserRunWithoutUsage(argv, fault) ==
    [script |-> "check_user", argv |-> argv, wrote |-> FALSE,
     out |-> IF Len(argv) > 0 /\ FindOne(users, "username", argv[1]) # 0
             THEN "no_password" ELSE "not_found",
     exit |-> 0, uncaught |-> FALSE, opened |-> TRUE, closed |-> TRUE]

\* check_user.py __main__ and check_user().  argv is sys.argv[1:]; the
\* connection is opened inside check_user(), after the arguments are read.
CheckUserRun(argv, fault) ==
    LET at   == FindOne(users, "username", argv[1])
        base == [script |-> "check_user", argv |-> argv, wrote |-> FALSE]
    IN
    IF Len(argv) < 2
    THEN base @@ [out |-> "usage", exit |-> 1, uncaught |-> FALSE,
                  opened |-> FALSE, closed |-> FALSE]
    ELSE IF fault = "find"
    THEN base @@ [out |-> "traceback", exit |-> 1, uncaught |-> TRUE,
                  opened |-> TRUE, closed |-> FALSE]
    ELSE IF at = 0
    THEN base @@ [out |-> "not_found", exit |-> 0, uncaught |-> FALSE,
                  opened |-> TRUE, closed |-> TRUE]
    ELSE IF StoredPassword(users[at]) = ""
    THEN base @@ [out |-> "no_password", inactive |-> ~IsActive(users[at]),
                  exit |-> 0, uncaught |-> FALSE, opened |-> TRUE, closed |-> TRUE]
    ELSE base @@ [out |-> VerifyCheckUser(bcryptBuild, StoredPassword(users[at]),
                                          argv[2]),
                  stored |-> StoredPassword(users[at]),
                  inactive |-> ~IsActive(users[at]),
                  exit |-> 0, uncaught |-> FALSE, opened |-> TRUE, closed |-> TRUE]

CheckUser(argv, fault) ==
    /\ Tick
    /\ last' = CheckUserRun(argv, fault)
    /\ UNCHANGED <<users, cities, fridges, checkins, nextId, bcryptBuild>>

\* The character, folded to lower case as the "i" option compares it.
LowerChar(c) ==
    LET UpperCase == "ABCDEFGHIJKLMNOPQRSTUVWXYZ"
        LowerCase == "abcdefghijklmnopqrstuvwxyz"
    IN
    IF \E i \in 1..Len(UpperCase) : SubSeq(UpperCase, i, i) = c
    THEN LET i == CHOOSE j \in 1..Len(UpperCase) : SubSeq(UpperCase, j, j) = c
         IN SubSeq(LowerCase, i, i)
    ELSE c

\* {"$regex": "^" + pattern + "$", "$options": "i"} on a string, for patterns
\* of letters, digits, "-", " " and ".": the dot stands for any character.
RegexMatchI(pattern, s) ==
    /\ Len(pattern) = Len(s)
    /\ \A i \in 1..Len(s) :
          \/ SubSeq(pattern, i, i) = "."
          \/ LowerChar(SubSeq(pattern, i, i)) = LowerChar(SubSeq(s, i, i))

FindOneRegexI(coll, field, pattern) ==
    IF \E i \in 1..Len(coll) : Has(coll[i], field) /\ RegexMatchI(pattern, coll[i][field])
    THEN CHOOSE i \in 1..Len(coll) :
            /\ Has(coll[i], field) /\ RegexMatchI(pattern, coll[i][field])
            /\ \A j \in 1..(i - 1) :
                  ~(Has(coll[j], field) /\ RegexMatchI(pattern, coll[j][field]))
    ELSE 0

\* test_login.py __main__ and test_login().  fault names the database call
\* that raises: "find", "regex" (the second lookup), "sample" (the listing
\* printed when nobody was found).
TestLoginRun(argv, fault) ==
    LET normalized_username == Strip(argv[1])
        exact == FindOne(users, "username", normalized_username)
        at    == IF exact # 0 THEN exact
                 ELSE FindOneRegexI(users, "username", normalized_username)
        base  == [script |-> "test_login", argv |-> argv, wrote |-> FALSE]
        crash == [out |-> "traceback", exit |-> 1, uncaught |-> TRUE,
                  opened |-> TRUE, closed |-> FALSE]
        ends  == [uncaught |-> FALSE, opened |-> TRUE, closed |-> TRUE]
    IN
    IF Len(argv) < 2
    THEN base @@ [out |-> "usage", exit |-> 1, uncaught |-> FALSE,
                  opened |-> FALSE, closed |-> FALSE]
    ELSE IF fault = "find" THEN base @@ crash
    ELSE IF exact = 0 /\ fault = "regex" THEN base @@ crash
    ELSE IF at = 0
    THEN IF fault = "sample" THEN base @@ crash
         ELSE base @@ ends @@ [out |-> "not_found", success |-> FALSE, exit |-> 1]
    ELSE IF ~IsActive(users[at])
    THEN base @@ ends @@ [out |-> "inactive", found |-> users[at].username,
                          success |-> FALSE, exit |-> 1]
    ELSE IF StoredPassword(users[at]) = ""
    THEN base @@ ends @@ [out |-> "no_password", found |-> users[at].username,
                          success |-> FALSE, exit |-> 1]
    ELSE LET success == VerifyTestLogin(bcryptBuild, StoredPassword(users[at]),
                                        argv[2])
         IN base @@ ends @@
               [out |-> "verified", found |-> users[at].username,
                stored |-> StoredPassword(users[at]),
                success |-> success, exit |-> IF success THEN 0 ELSE 1]

TestLogin(argv, fault) ==
    /\ Tick
    /\ last' = TestLoginRun(argv, fault)
    /\ UNCHANGED <<users, cities, fridges, checkins, nextId, bcryptBuild>>

\* list_users.py: two finds, the report, close.  fault: "users", "cities".
ListUsersRun(fault) ==
    LET base == [script |-> "list_users", wrote |-> FALSE, opened |-> TRUE] IN
    IF fault # "none"
    THEN base @@ [out |-> "traceback", exit |-> 1, uncaught |-> TRUE,
                  closed |-> FALSE]
    ELSE base @@ [out |-> "listed", total |-> Len(users), exit |-> 0,
                  uncaught |-> FALSE, closed |-> TRUE]

ListUsers(fault) ==
    /\ Tick
    /\ last' = ListUsersRun(fault)
    /\ UNCHANGED <<users, cities, fridges, checkins, nextId, bcryptBuild>>

\* check_database(uri, db_name) on a database holding user_count users:
\* what it returns and whether it closed the client it opened.
check_database(user_count, failed) ==
    IF failed THEN [ret |-> FALSE, closed |-> FALSE]
    ELSE [ret |-> user_count > 0, closed |-> TRUE]

\* check_db_connection.py __main__: fridge_manager is the modelled store,
\* refcheck a second database of which only the number of users matters.
CheckDbConnectionRun(refcheck_count, F) ==
    LET fm  == check_database(Len(users), "fridge_manager" \in F)
        ref == check_database(refcheck_count, "refcheck" \in F)
    IN
    [script |-> "check_db_connection", wrote |-> FALSE,
     has_users_fm |-> fm.ret, has_users_ref |-> ref.ret,
     out |-> IF fm.ret /\ ~ref.ret THEN "users_in_fridge_manager"
             ELSE IF ref.ret THEN "users_in_refcheck" ELSE "no_users",
     connections |-> <<fm.closed, ref.closed>>,
     exit |-> 0, uncaught |-> FALSE, opened |-> TRUE,
     closed |-> fm.closed /\ ref.closed]

CheckDbConnection(refcheck_count, F) ==
    /\ Tick
    /\ last' = CheckDbConnectionRun(refcheck_count, F)
    /\ UNCHANGED <<users, cities, fridges, checkins, nextId, bcryptBuild>>

-----------------------------------------------------------------------------
(* create_city.py and fix_city_binding.py                                  *)

\* update_many({}, {"$set": upd})
UpdateAll(coll, upd) == [i \in 1..Len(coll) |-> SetFields(coll[i], upd)]

\* An update that reaches only the documents that hold the field.
UpdateManyNeOnlyExisting(coll, field, value, upd) ==
    [i \in 1..Len(coll) |->
        IF Has(coll[i], field) /\ coll[i][field] # value
        THEN SetFields(coll[i], upd) ELSE coll[i]]

\* update_many({field: {"$ne": value}}, {"$set": upd}): $ne also matches
\* the documents that do not hold the field.
UpdateManyNe(coll, field, value, upd) ==
    [i \in 1..Len(coll) |->
        IF ~Matches(coll[i], field, value) THEN SetFields(coll[i], upd) ELSE coll[i]]

\* count_documents({field: value})
CountDocuments(coll, field, value) ==
    Cardinality({i \in 1..Len(coll) : Matches(coll[i], field, value)})

\* create_city.py, the whole script.  fault names the database call that
\* raises: "find", "insert", "update", "count".
CreateCityRun(fault) ==
    LET existing == FindOne(cities, "code", "taras")
        city     == [name |-> "Taraz", code |-> "taras", active |-> TRUE]
        city_id  == IF existing # 0 THEN cities[existing]._id ELSE nextId
        bound    == UpdateAll(fridges, [cityId |-> city_id])
        base     == [script |-> "create_city", opened |-> TRUE]
        crash    == [out |-> "traceback", exit |-> 1, uncaught |-> TRUE,
                     closed |-> FALSE]
    IN
    IF fault = "find" \/ (existing = 0 /\ fault = "insert")
    THEN /\ last' = base @@ crash @@ [wrote |-> FALSE]
         /\ UNCHANGED <<cities, fridges, nextId>>
    ELSE /\ cities' = IF existing # 0 THEN cities ELSE InsertOne(cities, city, nextId)
         /\ nextId' = IF existing # 0 THEN nextId ELSE nextId + 1
         /\ IF fault = "update"
            THEN /\ last' = base @@ crash @@ [wrote |-> existing = 0]
                 /\ UNCHANGED fridges
            ELSE /\ fridges' = bound
                 /\ last' = IF fault = "count"
                            THEN base @@ crash @@ [wrote |-> TRUE]
                            ELSE base @@
                                 [out |-> IF existing # 0 THEN "exists" ELSE "created",
                                  city_id |-> city_id, wrote |-> TRUE,
                                  modified_count |->
                                      Len(fridges) - CountDocuments(fridges, "cityId", city_id),
                                  exit |-> 0, uncaught |-> FALSE, closed |-> TRUE]

CreateCity(fault) ==
    /\ Tick
    /\ CreateCityRun(fault)
    /\ UNCHANGED <<users, checkins, bcryptBuild>>

\* fix_city_binding.py, the whole script.  fault: "find", "count" (one of
\* the four counts before the update), "sample", "update", "after" (the
\* count after the update).
FixCityBindingRun(fault) ==
    LET at      == FindOne(cities, "code", "taras")
        city_id == cities[at]._id
        base    == [script |-> "fix_city_binding", opened |-> TRUE]
        crash   == [out |-> "traceback", exit |-> 1, uncaught |-> TRUE,
                    closed |-> FALSE]
    IN
    IF fault = "find"
    THEN /\ last' = base @@ crash @@ [wrote |-> FALSE]
         /\ UNCHANGED fridges
    ELSE IF at = 0
    THEN /\ last' = base @@ [out |-> "city_not_found", wrote |-> FALSE, exit |-> 1,
                             uncaught |-> FALSE, closed |-> TRUE]
         /\ UNCHANGED fridges
    ELSE IF fault \in {"count", "sample", "update"}
    THEN /\ last' = base @@ crash @@ [wrote |-> FALSE]
         /\ UNCHANGED fridges
    ELSE /\ fridges' = UpdateManyNe(fridges, "cityId", city_id, [cityId |-> city_id])
         /\ last' = IF fault = "after"
                    THEN base @@ crash @@ [wrote |-> TRUE]
                    ELSE base @@
                         [out |-> "done", city_id |-> city_id, wrote |-> TRUE,
                          total_fridges |-> Len(fridges),
                          fridges_with_city |->
                              CountDocuments(fridges, "cityId", city_id),
                          modified_count |->
                              Len(fridges) - CountDocuments(fridges, "cityId", city_id),
                          exit |-> 0, uncaught |-> FALSE, closed |-> TRUE]

FixCityBinding(fault) ==
    /\ Tick
    /\ FixCityBindingRun(fault)
    /\ UNCHANGED <<users, cities, checkins, nextId, bcryptBuild>>

-----------------------------------------------------------------------------
(* generate_qr_codes.py.  The files the run writes are recorded in last.   *)

OUTPUT_DIR == "qr_codes"

\* os.path.join(OUTPUT_DIR, f"qr_{code}.png")
OutputPath(code) == OUTPUT_DIR \o "/qr_" \o code \o ".png"

\* fridges_collection.find({"active": True})
ActiveFridges(coll) == SelectSeq(coll, LAMBDA f : Matches(f, "active", TRUE))

\* One pass of the loop; failed: generate_qr_with_text raises.
QrStep(acc, fridge, failed) ==
    LET code == Get(fridge, "code") IN
    IF code = Null \/ code = ""
    THEN [acc EXCEPT !.outcomes = Append(@, "skipped")]
    ELSE IF failed
    THEN [acc EXCEPT !.outcomes = Append(@, "error")]
    ELSE [written  |-> Append(acc.written, OutputPath(code)),
          outcomes |-> Append(acc.outcomes, "generated")]

RECURSIVE QrLoop(_, _, _, _)
QrLoop(acc, found, i, F) ==
    IF i > Len(found) THEN acc
    ELSE QrLoop(QrStep(acc, found[i], i \in F), found, i + 1, F)

\* The whole script.  crash: the find raises.
GenerateQrCodesRun(F, crash) ==
    LET found == ActiveFridges(fridges)
        done  == QrLoop([written |-> <<>>, outcomes |-> <<>>], found, 1, F)
        base  == [script |-> "generate_qr_codes", wrote |-> FALSE, opened |-> TRUE,
                  records |-> Len(fridges)]
    IN
    IF crash = "find"
    THEN base @@ [out |-> "traceback", summary |-> FALSE, written |-> <<>>,
                  exit |-> 1, uncaught |-> TRUE, closed |-> FALSE]
    ELSE IF Len(found) = 0
    THEN base @@ [out |-> "no_active", summary |-> FALSE, written |-> <<>>,
                  exit |-> 1, uncaught |-> FALSE, closed |-> FALSE]
    ELSE base @@ [out |-> "done", summary |-> TRUE, written |-> done.written,
                  outcomes |-> done.outcomes,
                  generated |-> Count(done.outcomes, "generated"),
                  errors |-> Count(done.outcomes, "skipped")
                             + Count(done.outcomes, "error"),
                  exit |-> 0, uncaught |-> FALSE, closed |-> TRUE]

GenerateQrCodes(F, crash) ==
    /\ Tick
    /\ F \subseteq 1..Len(ActiveFridges(fridges))
    /\ last' = GenerateQrCodesRun(F, crash)
    /\ UNCHANGED <<users, cities, fridges, checkins, nextId, bcryptBuild>>

-----------------------------------------------------------------------------
(* The runs specification: one run of any script of the repository on any  *)
(* of the initial databases.                                               *)

FridgeC == [_id |-> 23, code |-> "3", name |-> "Shop C", cityId |-> 11,
            active |-> FALSE, createdAt |-> 3]
FridgeD == [_id |-> 24, code |-> "4", name |-> "Shop D", active |-> TRUE,
            createdAt |-> 4]

MoreFridgeData ==
    InitialFridgeData \cup {<< <<FridgeA, FridgeC, FridgeD>>, <<CheckinA>> >>}

CheckArgvs ==
    {<<>>, <<"admin">>, <<"admin", "admin123">>, <<"admin", "wrong">>,
     <<"02-b", "secret">>, <<" ADMIN ", "admin123">>, <<"nobody", "x">>}

CheckUserAny ==
    /\ CanRun
    /\ \E argv \in CheckArgvs, fault \in FaultChoices({"find"}) :
           CheckUser(argv, fault)

TestLoginAny ==
    /\ CanRun
    /\ \E argv \in CheckArgvs, fault \in FaultChoices({"find", "regex", "sample"}) :
           TestLogin(argv, fault)

ListUsersAny ==
    /\ CanRun
    /\ \E fault \in FaultChoices({"users", "cities"}) : ListUsers(fault)

CheckDbConnectionAny ==
    /\ CanRun
    /\ \E refcheck_count \in 0..1, F \in SUBSET {"fridge_manager", "refcheck"} :
           /\ Cardinality(F) <= MaxFaults
           /\ CheckDbConnection(refcheck_count, F)

CreateCityAny ==
    /\ CanRun
    /\ \E fault \in FaultChoices({"find", "insert", "update", "count"}) :
           CreateCity(fault)

FixCityBindingAny ==
    /\ CanRun
    /\ \E fault \in FaultChoices({"find", "count", "sample", "update", "after"}) :
           FixCityBinding(fault)

GenerateQrCodesAny ==
    /\ CanRun
    /\ \E F \in FaultSets(Len(ActiveFridges(fridges))) :
       \E crash \in CrashChoices(F, {"find"}) :
           GenerateQrCodes(F, crash)

InitRuns ==
    /\ users \in InitialUsers
    /\ cities \in InitialCities
    /\ \E data \in MoreFridgeData : fridges = data[1] /\ checkins = data[2]
    /\ nextId = FirstFreeId /\ now = MaxClock
    /\ bcryptBuild \in BcryptBuilds
    /\ last = NoRun

NextRuns ==
    \/ CreateUserAny
    \/ CreateAdminAny
    \/ CreateAccountantAny
    \/ ResetPasswordAny
    \/ RestoreUsersAny
    \/ CreateUsersAny
    \/ CheckUserAny
    \/ TestLoginAny
    \/ ListUsersAny
    \/ CheckDbConnectionAny
    \/ ImportAny
    \/ UpdateCodesAny
    \/ CreateCityAny
    \/ FixCityBindingAny
    \/ GenerateQrCodesAny

SpecRuns == InitRuns /\ [][NextRuns]_vars

-----------------------------------------------------------------------------
(* The cities specification: the scripts that write the cities collection  *)
(* or the city of a fridge, run one after another in any order.            *)

\* None of the three scripts hashes a password: one bcrypt build is enough.
InitCities ==
    /\ users = <<>>
    /\ cities \in InitialCities
    /\ \E data \in InitialFridgeData : fridges = data[1] /\ checkins = data[2]
    /\ nextId = FirstFreeId /\ now = 1
    /\ bcryptBuild = "truncate"
    /\ last = NoRun

NextCities == CreateCityAny \/ ImportAny \/ FixCityBindingAny

SpecCities == InitCities /\ [][NextCities]_vars

-----------------------------------------------------------------------------
(* The login specification: restore_users and test_login, run one after    *)
(* another in any order.                                                   *)

\* A collection with a record that has no active field, a record that has
\* no password, and the inactive legacy admin.
LoginUsers ==
    << [_id |-> 3, username |-> "guest", email |-> "guest@example.com",
        password |-> "$2b$10$" \o SaltB \o "guestpass", role |-> "manager",
        fullName |-> "Guest", createdAt |-> 0, updatedAt |-> 0],
       [_id |-> 4, username |-> "nopass", email |-> "nopass@example.com",
        role |-> "manager", fullName |-> "No password", active |-> TRUE,
        createdAt |-> 0, updatedAt |-> 0],
       LegacyAdmin >>

LoginArgvs ==
    CheckArgvs
    \cup {<<"guest", "guestpass">>, <<"GUEST", "guestpass">>, <<"guest", "wrong">>,
          <<"nopass", "">>}
    \cup {<<username, DEFAULT_PASSWORD>> :
             username \in {"admin", "02", "02-b", "02-b-b", "admin-b",
                           "taras", "taras-b"}}

LoginAny ==
    /\ CanRun
    /\ \E argv \in LoginArgvs, fault \in FaultChoices({"find", "regex", "sample"}) :
           TestLogin(argv, fault)

InitLogin ==
    /\ users \in InitialUsers \cup {LoginUsers}
    /\ cities \in InitialCities
    /\ fridges = <<>> /\ checkins = <<>>
    /\ nextId = FirstFreeId /\ now = 1
    /\ bcryptBuild \in BcryptBuilds
    /\ last = NoRun

NextLogin == RestoreUsersAny \/ LoginAny

SpecLogin == InitLogin /\ [][NextLogin]_vars

-----------------------------------------------------------------------------
(* Properties of hashing and verification, under SpecHash.                 *)

Hashed(run) == run.script = "hash_verify" /\ ~run.raised

\* C3: the secret hash_password(p) produces verifies as true against p and
\* as false against every plaintext different from p, on the verification
\* path of test_login (the returned value) and of check_user (the verdict).
HashThenVerify ==
    Hashed(last) =>
        /\ last.ok = (last.password = last.plain)
        /\ last.verdict = IF last.password = last.plain
                          THEN "password_correct" ELSE "password_wrong"

\* C4: verification chooses by the prefix of the stored secret: with one of
\* $2b$, $2a$, $2y$ the result is that of the hash verification; any other
\* non-empty stored secret verifies exactly when it equals the plaintext.
VerificationByPrefix ==
    last.script \in {"verify", "hash_verify"} /\ Has(last, "stored") =>
        IF Len(last.stored) >= BcryptPrefixLen
           /\ SubSeq(last.stored, 1, BcryptPrefixLen) \in BcryptPrefixes
        THEN /\ last.ok = (Checkpw(bcryptBuild, last.password, last.stored) = "True")
             /\ last.verdict \in {"password_correct", "password_wrong", "verify_error"}
             /\ (last.verdict = "password_correct") = last.ok
             /\ (last.verdict = "verify_error") =
                   (Checkpw(bcryptBuild, last.password, last.stored) = ValueError)
        ELSE last.stored # "" =>
             /\ last.ok = (last.stored = last.password)
             /\ last.verdict = IF last.stored = last.password
                               THEN "plain_match" ELSE "plain_mismatch"

\* A $2y$ hash was verified by bcrypt and accepted.
VerifiedByHash ==
    /\ last.script = "verify"
    /\ StartsWith(last.stored, "$2y$")
    /\ last.ok
    /\ last.verdict = "password_correct"

-----------------------------------------------------------------------------
(* Properties of the users collection, under SpecUsers.                    *)

IsBulk(run) == run.script \in {"restore_users", "create_users"}

\* A run took place in this step.
Ran == now' = now + 1

\* C1: usernames are pairwise distinct in the users collection, after any
\* sequence of runs of the user-writing scripts from a collection in which
\* they are pairwise distinct.
UsernamesUnique ==
    \A i, j \in 1..Len(users) : i # j => users[i].username # users[j].username

\* A bulk run whose list names one username twice has created users.
BulkCreatedWithRepeatedName ==
    /\ IsBulk(last) /\ last.summary
    /\ \E i, j \in 1..Len(last.entries) :
          i < j /\ last.entries[i].username = last.entries[j].username
    /\ last.created >= 1

\* create_user and create_admin on a username that is taken.
CreateUserOnTaken ==
    /\ Ran /\ last'.script = "create_user" /\ ~last'.uncaught
    /\ last'.out \notin {"usage", "bad_role"}
    /\ last'.argv[1] \in Usernames(users)
    => last'.out = "exists" /\ last'.ret = FALSE /\ users' = users

CreateAdminOnTaken ==
    /\ Ran /\ last'.script = "create_admin" /\ ~last'.uncaught
    /\ admin_username \in Usernames(users)
    => last'.out = "exists" /\ users' = users

LastWrite(run, name) ==
    CHOOSE j \in 1..Len(run.entries) :
        /\ run.entries[j].username = name /\ run.outcomes[j] # "error"
        /\ \A k \in (j + 1)..Len(run.entries) :
              ~(run.entries[k].username = name /\ run.outcomes[k] # "error")

\* C5: the bulk upsert creates the record when none has the username; when
\* one exists it overwrites password, active, role and fullName (and cityId
\* when one is configured) with the configured values; for a username
\* processed more than once the stored fields are those of the last write.
BulkUpsertWrites ==
    [][ Ran /\ IsBulk(last') /\ last'.summary =>
          \A i \in 1..Len(last'.entries) :
             last'.outcomes[i] # "error" =>
                \E name \in {last'.entries[i].username} :
                \E e \in {last'.entries[LastWrite(last', name)]} :
                \E at \in {FindOne(users', "username", name)} :
                  /\ (last'.outcomes[i] = "created") =
                        ~( \/ name \in Usernames(users)
                           \/ \E k \in 1..(i - 1) :
                                 /\ last'.entries[k].username = name
                                 /\ last'.outcomes[k] # "error" )
                  /\ last'.outcomes[i] \in {"created", "updated", "skipped"}
                  /\ at # 0
                  /\ users'[at].password = last'.hashed
                  /\ Checkpw(bcryptBuild, DEFAULT_PASSWORD, users'[at].password)
                        = "True"
                  /\ users'[at].active = e.active
                  /\ users'[at].role = e.role
                  /\ users'[at].fullName = e.fullName
                  /\ (e.cityId # None => users'[at].cityId = e.cityId)
      ]_vars

\* A bulk run overwrote existing records, created others, and wrote the
\* username "02-b" twice.
BulkOverwroteAndCreated ==
    /\ IsBulk(last) /\ last.summary
    /\ last.outcomes = <<"updated", "created", "updated", "updated", "created">>
    /\ last.entries[3].username = last.entries[4].username
    /\ users[FindOne(users, "username", "02-b")].role = "manager"
    /\ users[FindOne(users, "username", "admin")].active

NamesDistinct(entries) ==
    \A i, j \in 1..Len(entries) : i # j => entries[i].username # entries[j].username

\* C6: running the bulk upsert twice in a row against the same cities is
\* idempotent: the second run creates no user and, the records matching
\* already, reports no update (zero updates, or "no changes").
SecondRunChangesNothing ==
    [][ /\ Ran
        /\ IsBulk(last) /\ last.summary /\ last.errors = 0 /\ ~last.uncaught
        /\ last'.script = last.script
        /\ last'.summary /\ last'.errors = 0 /\ ~last'.uncaught
        /\ NamesDistinct(last'.entries)
        => /\ last'.created = 0
           /\ last'.updated = 0
           /\ last'.skipped = Len(last'.entries)
      ]_vars

\* C10: creating a user with an empty username or an empty password is
\* rejected with a validation message, and no user record is written.
MissingFieldRejected ==
    [][ /\ ( /\ Ran /\ last'.script = "create_user" /\ ~last'.uncaught
             /\ Len(last'.argv) >= 3
             /\ (last'.argv[1] = "" \/ last'.argv[3] = "")
             => last'.out \in {"usage", "validation"} /\ users' = users )
        /\ ( /\ Ran /\ last'.script = "create_accountant" /\ ~last'.uncaught
             /\ \/ Strip(last'.typed.username) = ""
                \/ Strip(last'.typed.password) = ""
             => /\ last'.out \in {"username_required", "password_required",
                                  "exists"}
                /\ users' = users )
      ]_vars

-----------------------------------------------------------------------------
(* Properties of the fridges collection, under SpecFridges.                *)

IsImport(run) == run.script = "import_fridges"

CodeCount(coll, code) ==
    Cardinality({i \in 1..Len(coll) : Get(coll[i], "code") = code})

\* C7: the import inserts each unique derived code exactly once, even when
\* the sheet yields a code twice, and importing the same sheet again inserts
\* nothing more: every record is skipped and counted as a duplicate.
ImportOnceThenNothing ==
    [][ /\ ( /\ Ran /\ IsImport(last') /\ last'.summary /\ last'.errors = 0
             => \A k \in 1..Len(last'.codes) :
                   /\ \A j \in 1..Len(last'.codes) :
                         j # k => last'.codes[j] # last'.codes[k]
                   /\ CodeCount(fridges', last'.codes[k]) = 1 )
        /\ ( /\ Ran
             /\ IsImport(last) /\ last.summary /\ last.errors = 0
             /\ IsImport(last') /\ last'.summary /\ last'.errors = 0
             /\ last'.rows = last.rows
             => /\ last'.imported = 0
                /\ last'.duplicates = Len(last'.codes)
                /\ fridges' = fridges )
      ]_vars

\* C8: fridge codes are pairwise distinct in the fridges collection, after
\* any sequence of runs of import_fridges and update_fridge_codes from a
\* collection in which they are pairwise distinct.
FridgeCodesUnique ==
    \A i, j \in 1..Len(fridges) :
        i # j => Get(fridges[i], "code") # Get(fridges[j], "code")

-----------------------------------------------------------------------------
(* The bulk specification: one run of a bulk operation (restore_users,     *)
(* create_users_refcheck, import_fridges) on any of the initial databases. *)

\* A fridge that an earlier import of the first sheet row has inserted.
ImportedFridge ==
    SetFields(FridgeRecord(SheetRow(7, "A-1", "Shop", "TP1"), "0A1B2C3D", CityTaras._id),
              [_id |-> 25])

InitBulk ==
    /\ users \in InitialUsers
    /\ cities \in InitialCities
    /\ \E data \in InitialFridgeData \cup {<< <<ImportedFridge>>, <<>> >>} :
          fridges = data[1] /\ checkins = data[2]
    /\ nextId = FirstFreeId /\ now = MaxClock
    /\ bcryptBuild \in BcryptBuilds
    /\ last = NoRun

NextBulk ==
    \/ RestoreUsersAny
    \/ CreateUsersAny
    \/ ImportAny

SpecBulk == InitBulk /\ [][NextBulk]_vars

\* The items of the loop of a bulk run, and whether item i is in the
\* database after the run.
Items(run) == IF IsImport(run) THEN run.codes ELSE run.entries

Written(run, i) ==
    IF IsImport(run)
    THEN FindOneStr(fridges, "code", run.codes[i]) # 0
    ELSE /\ FindOne(users, "username", run.entries[i].username) # 0
         /\ users[FindOne(users, "username", run.entries[i].username)].password
               = run.hashed

\* C9: in the bulk operations a failure on one item is recorded and does
\* not stop the loop: every other item is processed, before and after the
\* failure, its write is in the database, and the summary with the counts
\* is printed at the end.
BulkContinuesAfterFailure ==
    (IsBulk(last) \/ IsImport(last)) /\ last.faults # {} =>
        /\ last.summary
        /\ Len(last.outcomes) = Len(Items(last))
        /\ \A i \in 1..Len(Items(last)) :
              /\ (last.outcomes[i] = "error") = (i \in last.faults)
              /\ i \notin last.faults => Written(last, i)
        /\ last.errors = Cardinality(last.faults)
        /\ IF IsImport(last)
           THEN last.imported + last.duplicates + last.errors = Len(last.codes)
           ELSE last.created + last.updated + last.skipped + last.errors
                   = Len(last.entries)

\* An entry in the middle of the list failed; the entry before it and the
\* entry after it were created.
FailedInTheMiddle ==
    /\ IsBulk(last) /\ last.summary
    /\ \E i \in 2..(Len(last.entries) - 1) :
          /\ last.outcomes[i] = "error"
          /\ last.outcomes[i - 1] = "created" /\ Written(last, i - 1)
          /\ last.outcomes[i + 1] = "created" /\ Written(last, i + 1)

-----------------------------------------------------------------------------
(* Properties of single runs, under SpecRuns.                              *)

\* The run was started with fewer positional arguments than the script
\* requires.
TooFewArguments(run) ==
    \/ run.script = "create_user" /\ Len(run.argv) < 3
    \/ run.script \in {"check_user", "test_login"} /\ Len(run.argv) < 2
    \/ /\ run.script = "reset_password"
       /\ \/ Len(run.argv) = 0
          \/ run.argv[1] = "reset" /\ Len(run.argv) < 3

DatabaseUnchanged ==
    UNCHANGED <<users, cities, fridges, checkins, nextId>>

\* C11: a script that takes positional arguments, started with fewer than it
\* requires, prints its usage text, exits with a non-zero status and writes
\* nothing to the database.
UsageOnTooFewArguments ==
    [][Ran /\ last'.script # "none" /\ Has(last', "argv") /\ TooFewArguments(last')
         => /\ last'.out \in {"usage", "reset_usage"}
            /\ last'.exit # 0
            /\ DatabaseUnchanged]_vars

ResetWithoutUsername ==
    /\ last.script = "reset_password"
    /\ last.argv = <<"reset">>
    /\ last.out = "reset_usage"
    /\ last.exit = 1

IsScriptRun(run) == run.script \notin {"none", "hash_verify", "verify"}

\* The run opened a connection: check_user and test_login open theirs after
\* the argument check, every other script before anything else.
Opened(run) == IF Has(run, "opened") THEN run.opened ELSE TRUE

\* C12: whenever a script has ended, the database connection it opened has
\* been closed, whatever path the run took.
ConnectionClosedAtEnd ==
    IsScriptRun(last) /\ Opened(last) => last.closed

\* C13: no script ends with an uncaught exception: a database operation
\* that raises is caught, reported, and the script exits.
NoUncaughtException ==
    IsScriptRun(last) => ~last.uncaught

\* The image files a run of generate_qr_codes wrote.
FilesWritten(run) == {run.written[k] : k \in 1..Len(run.written)}

\* C14: a run of the QR generator without errors writes one image file per
\* fridge record, named qr_<code>.png: the files written correspond
\* one-to-one to the fridge records.
OneFilePerFridge ==
    [][Ran /\ last'.script = "generate_qr_codes" /\ last'.summary
           /\ last'.errors = 0
         => /\ FilesWritten(last') =
                  {OutputPath(Get(fridges[i], "code")) : i \in 1..Len(fridges)}
            /\ Cardinality(FilesWritten(last')) = Len(fridges)]_vars

-----------------------------------------------------------------------------
(* Properties of the cities collection, under SpecCities.                  *)

\* C15: no two city records share a code, so at most one city has the code
\* 'taras', after any sequence of runs of create_city and import_fridges
\* (and fix_city_binding) on cities whose codes were pairwise distinct.
CityCodesUnique ==
    \A i, j \in 1..Len(cities) : i < j => cities[i].code # cities[j].code

\* create_city found the city that an earlier run of a script had inserted.
TarasInsertedThenFound ==
    /\ last.script = "create_city"
    /\ last.out = "exists"
    /\ last.city_id >= FirstFreeId
    /\ Len(cities) > 1

-----------------------------------------------------------------------------
(* Roles and stored passwords, under SpecUsers.                            *)

Roles == {"admin", "manager", "accountant"}

\* The user records a step inserted or changed.
WrittenUsers ==
    {i \in 1..Len(users') : i > Len(users) \/ users'[i] # users[i]}

\* C16: every user record a script creates or updates has a role among
\* admin, manager and accountant; create_user started with a role other
\* than manager or admin exits with a non-zero status and writes nothing.
RolesOfWrittenUsers ==
    [][Ran => /\ \A i \in WrittenUsers : users'[i].role \in Roles
              /\ (/\ last'.script = "create_user"
                  /\ Len(last'.argv) > 3
                  /\ last'.argv[4] \notin {"manager", "admin"})
                 => last'.exit # 0 /\ users' = users]_vars

\* One bulk run wrote records of all three roles.
ThreeRolesWritten ==
    /\ IsBulk(last)
    /\ \A r \in Roles :
          \E i \in 1..Len(users) :
             /\ users[i].role = r
             /\ Has(users[i], "updatedAt") /\ users[i].updatedAt = last.at

-----------------------------------------------------------------------------
(* Properties of the renumbering, under SpecFridges.                       *)

\* update_fridge_codes went through every fridge and reported no error.
RenumberedWithoutErrors ==
    /\ Ran
    /\ last'.script = "update_fridge_codes"
    /\ last'.summary /\ last'.errors = 0 /\ ~last'.uncaught

\* C17: after update_fridge_codes ran without errors on N fridges, the
\* fridge that comes i-th in ascending order of createdAt has the code str(i),
\* so the codes are '1'..'N', each once, whatever the codes were before.
RenumberedInOrder ==
    [][RenumberedWithoutErrors
         => \A i \in 1..Len(fridges') :
               Get(fridges'[last'.order[i]], "code") = NatStr(i)]_vars

\* C18: update_fridge_codes keeps every checkin with its fridge: a checkin
\* that referenced the old code of a fridge references the new code of the
\* same fridge afterwards.
CheckinsFollowFridge ==
    [][RenumberedWithoutErrors
         => \A k \in 1..Len(checkins), f \in 1..Len(fridges) :
               (/\ Get(fridges[f], "code") = checkins[k].fridgeId
                /\ \A g \in 1..Len(fridges) :
                      g # f => Get(fridges[g], "code") # Get(fridges[f], "code"))
               => checkins'[k].fridgeId = Get(fridges'[f], "code")]_vars

-----------------------------------------------------------------------------
(* Properties of fix_city_binding, under SpecRuns.                         *)

\* C19: fix_city_binding, when the city 'taras' exists and no database call
\* raises, leaves every fridge with the cityId of that city and with every
\* other field as it was; when the city does not exist it exits with status
\* 1 and writes nothing.
FixCityBindingBindsAll ==
    [][Ran /\ last'.script = "fix_city_binding" /\ ~last'.uncaught
         => IF FindOne(cities, "code", "taras") # 0
            THEN /\ last'.exit = 0
                 /\ Len(fridges') = Len(fridges)
                 /\ \A i \in 1..Len(fridges) :
                       /\ Has(fridges'[i], "cityId")
                       /\ fridges'[i].cityId =
                             cities[FindOne(cities, "code", "taras")]._id
                       /\ DOMAIN fridges'[i] = DOMAIN fridges[i] \cup {"cityId"}
                       /\ \A k \in DOMAIN fridges[i] \ {"cityId"} :
                             fridges'[i][k] = fridges[i][k]
                 /\ UNCHANGED <<users, cities, checkins, nextId>>
            ELSE /\ last'.exit = 1
                 /\ DatabaseUnchanged]_vars

\* The run bound a fridge of another city and a fridge of no city.
BoundOtherAndUnbound ==
    /\ last.script = "fix_city_binding"
    /\ last.out = "done"
    /\ last.modified_count = 2
    /\ last.fridges_with_city = 1

-----------------------------------------------------------------------------
(* Stored passwords, under SpecUsers.                                      *)

\* The user records whose password a step wrote.
PasswordWrites ==
    {i \in 1..Len(users') :
        \/ i > Len(users)
        \/ StoredPassword(users'[i]) # StoredPassword(users[i])}

\* The value has the versioned-hash format: "$2a$", "$2b$" or "$2y$", the
\* cost, "$", and at least the 22 characters of the salt.
VersionedHash(stored) ==
    /\ Len(stored) >= BcryptSaltStringLen
    /\ \E prefix \in BcryptPrefixes : SubSeq(stored, 1, Len(prefix)) = prefix
    /\ SubSeq(stored, 7, 7) = "$"

\* C20: no script stores a plaintext password: every password a script
\* writes has the versioned-hash format, so check_user and test_login
\* verify such a record on the hash path, never by plain comparison.
PasswordsStoredHashed ==
    [][Ran => \A i \in PasswordWrites :
                 /\ VersionedHash(users'[i].password)
                 /\ \A password \in HashPasswords :
                       VerifyCheckUser(bcryptBuild, users'[i].password, password)
                          \in {"password_correct", "password_wrong", "verify_error"}]_vars

\* reset_password replaced the legacy plaintext of 'admin' by a hash.
PlaintextReplacedByHash ==
    /\ last.script = "reset_password"
    /\ last.out = "changed"
    /\ \E i \in 1..Len(users) :
          /\ users[i]._id = LegacyAdmin._id
          /\ users[i].password # LegacyAdmin.password
          /\ VersionedHash(users[i].password)

-----------------------------------------------------------------------------
(* Properties of logging in, under SpecLogin.                              *)

\* The run before this step was restore_users, it went through its list
\* and recorded no error.
RestoredWithoutErrors ==
    /\ last.script = "restore_users"
    /\ last.summary /\ last.errors = 0 /\ ~last.uncaught

\* This step is test_login with the default password for a username the
\* restore processed, and its lookups did not raise.
LoginOfRestoredUser ==
    /\ Ran
    /\ last'.script = "test_login"
    /\ Len(last'.argv) = 2
    /\ last'.argv[2] = DEFAULT_PASSWORD
    /\ \E i \in 1..Len(last.entries) : last.entries[i].username = last'.argv[1]
    /\ ~last'.uncaught

ReturnedTrue(run) ==
    /\ run.out # "usage" /\ ~run.uncaught
    /\ run.success

\* C22: test_login returns True only for an existing, active user with a
\* non-empty stored password that verifies; for a user whose active flag is
\* false it returns False even when the password is correct; a record
\* without an active field counts as active; and the exit status is 0
\* exactly when test_login returned True.
TestLoginVerdict ==
    [][Ran /\ last'.script = "test_login"
         => /\ (last'.exit = 0) <=> ReturnedTrue(last')
            /\ ReturnedTrue(last')
                  => \E i \in 1..Len(users) :
                        /\ users[i].username = last'.found
                        /\ ~(Has(users[i], "active") /\ users[i].active = FALSE)
                        /\ Has(users[i], "password") /\ users[i].password # ""
                        /\ VerifyTestLogin(bcryptBuild, users[i].password,
                                           last'.argv[2])
            /\ \A i \in 1..Len(users) :
                  (/\ Len(last'.argv) = 2
                   /\ users[i].username = Strip(last'.argv[1])
                   /\ Has(users[i], "password") /\ users[i].password # ""
                   /\ VerifyTestLogin(bcryptBuild, users[i].password, last'.argv[2])
                   /\ ~last'.uncaught)
                  => IF Has(users[i], "active") /\ users[i].active = FALSE
                     THEN ~ReturnedTrue(last') /\ last'.exit = 1
                     ELSE ReturnedTrue(last')]_vars

\* An inactive user was refused although the password given was right.
InactiveRefusedWithRightPassword ==
    /\ last.script = "test_login"
    /\ last.out = "inactive"
    /\ last.exit = 1
    /\ \E i \in 1..Len(users) :
          /\ users[i].username = last.found
          /\ ~users[i].active
          /\ VerifyTestLogin(bcryptBuild, users[i].password, last.argv[2])

-----------------------------------------------------------------------------
(* Frame and counts of the bulk operations, under SpecBulk.                *)

UpsertedFields == {"password", "active", "role", "fullName", "updatedAt", "cityId"}

\* The entries of the run's list with the username.
EntriesFor(run, username) ==
    {i \in 1..Len(run.entries) : run.entries[i].username = username}

\* C23: a bulk upsert changes, in a record that existed, nothing but
\* password, active, role, fullName, updatedAt and cityId: it removes no
\* field, keeps _id, username, email and createdAt, keeps the cityId when
\* every entry for the username has cityId None, and leaves the records
\* whose username is not in its list as they were.
BulkUpsertFrame ==
    [][Ran /\ IsBulk(last')
         => /\ Len(users') >= Len(users)
            /\ \A i \in 1..Len(users) :
                  /\ DOMAIN users[i] \subseteq DOMAIN users'[i]
                  /\ DOMAIN users'[i] \ DOMAIN users[i] \subseteq UpsertedFields
                  /\ \A k \in DOMAIN users[i] \ UpsertedFields :
                        users'[i][k] = users[i][k]
                  /\ (/\ Has(users[i], "cityId")
                      /\ \A n \in EntriesFor(last', users[i].username) :
                            last'.entries[n].cityId = None)
                     => users'[i].cityId = users[i].cityId
                  /\ EntriesFor(last', users[i].username) = {}
                     => users'[i] = users[i]]_vars

\* The legacy admin was updated by the entry without a city and kept its
\* cityId, while another record was not in the list.
AdminUpdatedKeepsCity ==
    /\ IsBulk(last)
    /\ Len(last.entries) = 1
    /\ last.outcomes = <<"updated">>
    /\ Len(users) = 2
    /\ \E i \in 1..Len(users) :
          /\ users[i]._id = LegacyAdmin._id
          /\ users[i].password = last.hashed
          /\ users[i].cityId = LegacyAdmin.cityId
          /\ users[i].email = LegacyAdmin.email

-----------------------------------------------------------------------------
(* Frame of reset_password, under SpecRuns.                                *)

\* This step is 'reset_password.py reset <username> <password>' and no
\* call of it raised.
ResetCommand ==
    /\ Ran
    /\ last'.script = "reset_password"
    /\ Len(last'.argv) >= 3 /\ last'.argv[1] = "reset"
    /\ ~last'.uncaught

\* C24: reset_password changes only the password field of the one record
\* with the given username and leaves every other field and every other
\* record unchanged; when no record has the username it returns False and
\* writes nothing.
ResetPasswordFrame ==
    [][ResetCommand
         => IF \E i \in 1..Len(users) : users[i].username = last'.argv[2]
            THEN /\ last'.ret = TRUE
                 /\ Len(users') = Len(users)
                 /\ \A i \in 1..Len(users) :
                       IF users[i].username = last'.argv[2]
                       THEN /\ DOMAIN users'[i] = DOMAIN users[i] \cup {"password"}
                            /\ \A k \in DOMAIN users[i] \ {"password"} :
                                  users'[i][k] = users[i][k]
                            /\ Checkpw(bcryptBuild, last'.argv[3], users'[i].password)
                                  = "True"
                       ELSE users'[i] = users[i]
                 /\ UNCHANGED <<cities, fridges, checkins, nextId>>
            ELSE /\ last'.ret = FALSE
                 /\ DatabaseUnchanged]_vars

\* The password of the inactive legacy admin was reset; the record is
\* still inactive and the other record is as it was.
AdminResetStaysInactive ==
    /\ last.script = "reset_password"
    /\ last.out = "changed"
    /\ Len(users) = 2
    /\ \E i \in 1..Len(users) :
          /\ users[i]._id = LegacyAdmin._id
          /\ users[i].password # LegacyAdmin.password
          /\ users[i].active = FALSE
          /\ users[i].email = LegacyAdmin.email

-----------------------------------------------------------------------------
(* Counts of the bulk operations, under SpecBulk.                          *)

\* C25: in the bulk upsert every entry of the list is counted in exactly
\* one outcome: created + updated + skipped + errors is the number of
\* entries, and the users collection has grown by exactly the created count.
BulkCountsAddUp ==
    [][Ran /\ IsBulk(last') /\ last'.summary
         => /\ Len(last'.outcomes) = Len(last'.entries)
            /\ last'.created + last'.updated + last'.skipped + last'.errors
                  = Len(last'.entries)
            /\ Len(users') = Len(users) + last'.created
            /\ \A i \in 1..Len(users) : users'[i]._id = users[i]._id]_vars

\* One run created a user, updated a user and recorded an error.
CreatedUpdatedAndFailed ==
    /\ IsBulk(last)
    /\ last.summary
    /\ last.created > 0 /\ last.updated > 0 /\ last.errors > 0

\* C26: in the fridge import every unique record is counted in exactly one
\* outcome: imported + duplicates + errors is the number of unique records,
\* the fridges collection has grown by exactly the imported count, and no
\* fridge document that existed before the import is modified.
ImportCountsAddUp ==
    [][Ran /\ IsImport(last') /\ last'.summary
         => /\ Len(last'.outcomes) = Len(last'.codes)
            /\ last'.imported + last'.duplicates + last'.errors = Len(last'.codes)
            /\ Len(fridges') = Len(fridges) + last'.imported
            /\ \A i \in 1..Len(fridges) : fridges'[i] = fridges[i]]_vars

\* One import skipped a record whose code was in the collection and
\* inserted another one.
ImportedAndSkippedDuplicate ==
    /\ IsImport(last)
    /\ last.summary
    /\ last.imported > 0 /\ last.duplicates > 0
    /\ \E i \in 1..Len(fridges) : fridges[i] = ImportedFridge

=============================================================================
